---------------------------- MODULE Spec2Model ----------------------------
(***************************************************************************)
(* Three scripts around the pgpy OpenPGP library:                           *)
(*   pgp_encrypter.py                  encrypts a literal to a public key   *)
(*                                     and writes it to a file;             *)
(*   pgp_encoder.py and                                                     *)
(*   keys_from_files/pgp_decrypter.py  decrypt an armored message file with *)
(*                                     a secret key and print the result.   *)
(* Each script is a process; the working directory is shared.  The library  *)
(* is an environment whose interface is the one the specification lists.    *)
(***************************************************************************)
EXTENDS Naturals, Sequences, FiniteSets

VARIABLES
    fs,       \* the working directory: path -> file
    pc,       \* script -> position in main()
    locals,   \* script -> the local variables of main()
    stdout,   \* script -> what the current run wrote to standard output
    err,      \* script -> the exception that ended the current run
    log,      \* script -> the calls the current run has made, in order
    runs,     \* script -> number of runs started
    startfile,\* the output file when the encrypter's current run started
    initfs    \* the working directory before any script ran

vars == <<fs, pc, locals, stdout, err, log, runs, startfile, initfs>>

(***************************************************************************)
(* Bounds                                                                  *)
(***************************************************************************)
MaxRuns == 2
MaxSessionKey == 2

SessionKeys == 1..MaxSessionKey

(***************************************************************************)
(* The scripts and their constants                                          *)
(***************************************************************************)
Encrypter == "pgp_encrypter"
Encoder == "pgp_encoder"
Decrypter == "pgp_decrypter"

Scripts == {Encrypter, Encoder, Decrypter}
DecryptScripts == {Encoder, Decrypter}

\* Variant: the ciphertext is written over the decrypt scripts' input.
encrypter_encrypted_msg_file_p1 == "p1_armored_message.txt"
encrypter_encrypted_msg_file == "encrypted_message.txt"
encrypter_public_key_file == "./key_files/pub.asc"
encrypter_secret_msg == "Secret message from python encoder script"

\* Variant: the commented-out assignment pgp_msg_file = "ep.pgp" is live.
encoder_pgp_msg_file_ep == "ep.pgp"
encoder_pgp_msg_file == "p1_armored_message.txt"
encoder_key_file == "./key_files/person_two/sec.asc"

decrypter_pgp_msg_file == "p1_armored_message.txt"
\* Variant: the key of the commented-out token workflow is loaded.
decrypter_key_file_private == "private.key"
decrypter_key_file == "./key_files/person_two/sec.asc"

\* The paths of the commented-out token workflow of pgp_encoder.py.
AbandonedPaths == {"ep.pgp", "private.key"}

Paths ==
    {"encrypted_message.txt", "./key_files/pub.asc",
     "./key_files/person_two/sec.asc", "p1_armored_message.txt"}
    \cup AbandonedPaths

(***************************************************************************)
(* Values                                                                   *)
(***************************************************************************)
None == [type |-> "none"]
PyStr(text) == [type |-> "str", s |-> text]
Error(name) == [type |-> "error", name |-> name]
IsError(v) == v.type = "error"

PublicKey(id, canEncrypt) ==
    [type |-> "key", secret |-> FALSE, id |-> id,
     canEncrypt |-> canEncrypt, protected |-> FALSE]
SecretKey(id, protected) ==
    [type |-> "key", secret |-> TRUE, id |-> id,
     canEncrypt |-> TRUE, protected |-> protected]
Literal(text) == [type |-> "literal", body |-> text]
Encrypted(id, sk, text) ==
    [type |-> "encrypted", to |-> id, sk |-> sk, body |-> text]

(***************************************************************************)
(* Files: a file is absent or holds a sequence of chunks.                   *)
(***************************************************************************)
NL == [chunk |-> "newline"]
Junk == [chunk |-> "junk"]
Text(text) == [chunk |-> "text", text |-> text]
Armor(packet) == [chunk |-> "armor", packet |-> packet]

NoFile == [exists |-> FALSE, data |-> <<>>]
File(data) == [exists |-> TRUE, data |-> data]

\* All chunks after the first are line terminators.
RECURSIVE OnlyNewlines(_)
OnlyNewlines(data) ==
    IF data = <<>> THEN TRUE
    ELSE Head(data) = NL /\ OnlyNewlines(Tail(data))

\* One armored block, followed by nothing but line terminators.
IsArmoredBlock(data) ==
    /\ Len(data) >= 1
    /\ data[1].chunk = "armor"
    /\ OnlyNewlines(Tail(data))

(***************************************************************************)
(* The library, as the interface the specification gives.                   *)
(***************************************************************************)
\* pgpy.PGPKey.from_file(path): the key handle, or the failure.
LoadKey(file) ==
    IF ~file.exists THEN Error("FileNotFoundError")
    ELSE IF IsArmoredBlock(file.data) /\ file.data[1].packet.type = "key"
         THEN file.data[1].packet
         ELSE Error("KeyFormatError")

\* pgpy.PGPMessage.from_file(path): the message handle, or the failure.
LoadMessage(file) ==
    IF ~file.exists THEN Error("FileNotFoundError")
    ELSE IF /\ IsArmoredBlock(file.data)
            /\ file.data[1].packet.type \in {"literal", "encrypted"}
         THEN file.data[1].packet
         ELSE Error("MessageFormatError")

\* pgpy.PGPMessage.new(text)
NewMessage(text) == Literal(text)

\* key.encrypt(message) with the session key sk the library drew.
Encrypt(k, m, sk) ==
    IF ~k.canEncrypt THEN Error("EncryptionError")
    ELSE Encrypted(k.id, sk, m.body)

\* key.decrypt(message): the decrypted message, or the failure.
Decrypt(k, m) ==
    IF ~k.secret THEN Error("WrongKeyError")
    ELSE IF k.protected THEN Error("PassphraseError")
    ELSE IF m.type # "encrypted" THEN Error("DecryptionError")
    ELSE IF k.id # m.to THEN Error("DecryptionError")
    ELSE Literal(m.body)

\* PGPMessage.message: the contents of a literal message.
MessageOf(m) == PyStr(m.body)

(***************************************************************************)
(* Python built-ins                                                         *)
(***************************************************************************)
\* str(v): a str is itself, a PGPMessage is its ASCII armor.
Str(v) == IF v.type = "str" THEN Text(v.s) ELSE Armor(v)

\* print(v, file=f) writes str(v) and the line terminator.
PrintLine(v) == <<Str(v), NL>>

\* Variant: open(path, 'a') creates the file or keeps what it holds.
OpenForAppend(file) == File(file.data)

\* open(path, 'w') creates the file or truncates it.
OpenForWrite(file) == File(<<>>)

\* One call of the run's call log.
Call(name, path) == [call |-> name, path |-> path]

(***************************************************************************)
(* Initial state                                                            *)
(***************************************************************************)
PubKeyFiles ==
    { File(<<Armor(PublicKey("person_one", TRUE)), NL>>),
      File(<<Armor(PublicKey("person_one", FALSE)), NL>>),
      File(<<Junk>>),
      NoFile }

SecKeyFiles ==
    { File(<<Armor(SecretKey("person_two", FALSE)), NL>>),
      File(<<Armor(SecretKey("person_two", TRUE)), NL>>),
      File(<<Armor(SecretKey("other", FALSE)), NL>>),
      File(<<Junk>>) }

MessageFiles ==
    { File(<<Armor(Encrypted("person_two", 1, "message from person one")), NL>>),
      File(<<Junk>>) }

OldOutputFiles == { NoFile, File(<<Text("old"), NL>>) }

EncrypterLocals == [pubkey |-> None, message |-> None, armored_msg |-> None]
DecryptLocals == [privkey |-> None, crypt_msg |-> None, msg |-> None]
FreshLocals(s) == IF s = Encrypter THEN EncrypterLocals ELSE DecryptLocals

Init ==
    /\ \E pub \in PubKeyFiles, sec \in SecKeyFiles,
          msg \in MessageFiles, old \in OldOutputFiles :
          fs = [p \in Paths |->
                  CASE p = "./key_files/pub.asc" -> pub
                    [] p = "./key_files/person_two/sec.asc" -> sec
                    [] p = "p1_armored_message.txt" -> msg
                    [] p = "encrypted_message.txt" -> old
                    [] OTHER -> NoFile]
    /\ pc = [s \in Scripts |-> "idle"]
    /\ locals = [s \in Scripts |-> FreshLocals(s)]
    /\ stdout = [s \in Scripts |-> <<>>]
    /\ err = [s \in Scripts |-> None]
    /\ log = [s \in Scripts |-> <<>>]
    /\ runs = [s \in Scripts |-> 0]
    /\ startfile = fs["encrypted_message.txt"]
    /\ initfs = fs

(***************************************************************************)
(* Steps shared by the scripts                                              *)
(***************************************************************************)
\* Variant: the failing call is retried from the first statement.
RaiseRetried(s, e, c) ==
    /\ pc' = [pc EXCEPT ![s] = "loadKey"]
    /\ log' = [log EXCEPT ![s] = Append(@, c)]
    /\ UNCHANGED <<fs, locals, stdout, err, runs, startfile, initfs>>

\* Variant: a handler prints the exception before the run ends.
RaisePrinted(s, e, c) ==
    /\ pc' = [pc EXCEPT ![s] = "error"]
    /\ err' = [err EXCEPT ![s] = e]
    /\ log' = [log EXCEPT ![s] = Append(@, c)]
    /\ stdout' = [stdout EXCEPT ![s] = @ \o <<Text(e.name), NL>>]
    /\ UNCHANGED <<fs, locals, runs, startfile, initfs>>

\* Variant: a handler calls main() again.
RaiseRestarted(s, e, c) ==
    /\ pc' = [pc EXCEPT ![s] = "loadKey"]
    /\ locals' = [locals EXCEPT ![s] = FreshLocals(s)]
    /\ log' = [log EXCEPT ![s] = <<>>]
    /\ UNCHANGED <<fs, stdout, err, runs, startfile, initfs>>

\* An exception nothing catches: it leaves main() and ends the run.
Raise(s, e, c) ==
    /\ pc' = [pc EXCEPT ![s] = "error"]
    /\ err' = [err EXCEPT ![s] = e]
    /\ log' = [log EXCEPT ![s] = Append(@, c)]
    /\ UNCHANGED <<fs, locals, stdout, runs, startfile, initfs>>

\* A call that returned v into the local variable `name`.
Return(s, name, v, c, next) ==
    /\ pc' = [pc EXCEPT ![s] = next]
    /\ locals' = [locals EXCEPT ![s][name] = v]
    /\ log' = [log EXCEPT ![s] = Append(@, c)]
    /\ UNCHANGED <<fs, stdout, err, runs, startfile, initfs>>

\* if __name__ == "__main__": main()   -- a new process runs the script.
Start(s) ==
    /\ pc[s] \in {"idle", "done", "error"}
    /\ runs[s] < MaxRuns
    /\ runs' = [runs EXCEPT ![s] = @ + 1]
    /\ pc' = [pc EXCEPT ![s] = "loadKey"]
    /\ locals' = [locals EXCEPT ![s] = FreshLocals(s)]
    /\ stdout' = [stdout EXCEPT ![s] = <<>>]
    /\ err' = [err EXCEPT ![s] = None]
    /\ log' = [log EXCEPT ![s] = <<>>]
    /\ startfile' = IF s = Encrypter THEN fs[encrypter_encrypted_msg_file]
                              ELSE startfile
    /\ UNCHANGED <<fs, initfs>>

(***************************************************************************)
(* pgp_encrypter.py                                                         *)
(***************************************************************************)
\* pubkey, _ = pgpy.PGPKey.from_file(public_key_file)
encrypter_from_file ==
    LET c == Call("PGPKey.from_file", encrypter_public_key_file)
        r == LoadKey(fs[encrypter_public_key_file])
    IN  /\ pc[Encrypter] = "loadKey"
        /\ IF IsError(r) THEN Raise(Encrypter, r, c)
           ELSE Return(Encrypter, "pubkey", r, c, "loadMsg")

\* message = pgpy.PGPMessage.new(secret_msg)
encrypter_new ==
    /\ pc[Encrypter] = "loadMsg"
    /\ Return(Encrypter, "message", NewMessage(encrypter_secret_msg),
              Call("PGPMessage.new", ""), "crypt")

\* Variant: the output file is opened before encrypt is called.
encrypter_encrypt_after_open ==
    /\ pc[Encrypter] = "crypt"
    /\ \E sk \in SessionKeys :
          LET r == Encrypt(locals[Encrypter].pubkey,
                           locals[Encrypter].message, sk)
          IN  /\ fs' = [fs EXCEPT ![encrypter_encrypted_msg_file] = File(<<>>)]
              /\ log' = [log EXCEPT ![Encrypter] = Append(@, Call("encrypt", ""))]
              /\ IF IsError(r)
                 THEN /\ pc' = [pc EXCEPT ![Encrypter] = "error"]
                      /\ err' = [err EXCEPT ![Encrypter] = r]
                      /\ UNCHANGED locals
                 ELSE /\ pc' = [pc EXCEPT ![Encrypter] = "open"]
                      /\ locals' = [locals EXCEPT ![Encrypter].armored_msg = r]
                      /\ UNCHANGED err
              /\ UNCHANGED <<stdout, runs, startfile, initfs>>

\* armored_msg = pubkey.encrypt(message)
encrypter_encrypt ==
    /\ pc[Encrypter] = "crypt"
    /\ \E sk \in SessionKeys :
          LET c == Call("encrypt", "")
              r == Encrypt(locals[Encrypter].pubkey,
                           locals[Encrypter].message, sk)
          IN  IF IsError(r) THEN Raise(Encrypter, r, c)
              ELSE Return(Encrypter, "armored_msg", r, c, "open")

\* open(encrypted_msg_file, 'w')  -- the argument of print is evaluated first
encrypter_open ==
    /\ pc[Encrypter] = "open"
    /\ fs' = [fs EXCEPT ![encrypter_encrypted_msg_file] = OpenForWrite(@)]
    /\ pc' = [pc EXCEPT ![Encrypter] = "print"]
    /\ log' = [log EXCEPT ![Encrypter] =
                  Append(@, Call("open_w", encrypter_encrypted_msg_file))]
    /\ UNCHANGED <<locals, stdout, err, runs, startfile, initfs>>

\* print(armored_msg, file=<the open file>)
encrypter_print ==
    /\ pc[Encrypter] = "print"
    /\ fs' = [fs EXCEPT ![encrypter_encrypted_msg_file] =
                 File(@.data \o PrintLine(locals[Encrypter].armored_msg))]
    /\ pc' = [pc EXCEPT ![Encrypter] = "done"]
    /\ log' = [log EXCEPT ![Encrypter] =
                  Append(@, Call("print", encrypter_encrypted_msg_file))]
    /\ UNCHANGED <<locals, stdout, err, runs, startfile, initfs>>

(***************************************************************************)
(* The decrypt scripts: the same four statements in both files              *)
(***************************************************************************)
\* privkey, _ = pgpy.PGPKey.from_file(<key file>)
DecryptFromFile(s, key_file) ==
    LET c == Call("PGPKey.from_file", key_file)
        r == LoadKey(fs[key_file])
    IN  /\ pc[s] = "loadKey"
        /\ IF IsError(r) THEN Raise(s, r, c)
           ELSE Return(s, "privkey", r, c, "loadMsg")

\* Variant: a message file that does not parse is replaced by an empty
\* message and the run goes on.
DecryptMessageFromFileOrEmpty(s, msg_file) ==
    LET c == Call("PGPMessage.from_file", msg_file)
        r == LoadMessage(fs[msg_file])
    IN  /\ pc[s] = "loadMsg"
        /\ Return(s, "crypt_msg", IF IsError(r) THEN NewMessage("") ELSE r,
                  c, "crypt")

\* crypt_msg = pgpy.PGPMessage.from_file(pgp_msg_file)
DecryptMessageFromFile(s, msg_file) ==
    LET c == Call("PGPMessage.from_file", msg_file)
        r == LoadMessage(fs[msg_file])
    IN  /\ pc[s] = "loadMsg"
        /\ IF IsError(r) THEN Raise(s, r, c)
           ELSE Return(s, "crypt_msg", r, c, "crypt")

\* Variant: a failed decrypt leaves an empty msg and the run goes on.
DecryptDecryptOrEmpty(s) ==
    LET c == Call("decrypt", "")
        r == Decrypt(locals[s].privkey, locals[s].crypt_msg)
    IN  /\ pc[s] = "crypt"
        /\ Return(s, "msg", IF IsError(r) THEN PyStr("") ELSE MessageOf(r),
                  c, "print")

\* msg = privkey.decrypt(crypt_msg).message
DecryptDecrypt(s) ==
    LET c == Call("decrypt", "")
        r == Decrypt(locals[s].privkey, locals[s].crypt_msg)
    IN  /\ pc[s] = "crypt"
        /\ IF IsError(r) THEN Raise(s, r, c)
           ELSE Return(s, "msg", MessageOf(r), c, "print")

\* print(msg)
DecryptPrint(s) ==
    /\ pc[s] = "print"
    /\ stdout' = [stdout EXCEPT ![s] = @ \o PrintLine(locals[s].msg)]
    /\ pc' = [pc EXCEPT ![s] = "done"]
    /\ log' = [log EXCEPT ![s] = Append(@, Call("print", "<stdout>"))]
    /\ UNCHANGED <<fs, locals, err, runs, startfile, initfs>>

\* pgp_encoder.py
encoder_from_file == DecryptFromFile(Encoder, encoder_key_file)
encoder_message_from_file == DecryptMessageFromFile(Encoder, encoder_pgp_msg_file)
encoder_decrypt == DecryptDecrypt(Encoder)
encoder_print == DecryptPrint(Encoder)

\* keys_from_files/pgp_decrypter.py
decrypter_from_file == DecryptFromFile(Decrypter, decrypter_key_file)
decrypter_message_from_file ==
    DecryptMessageFromFile(Decrypter, decrypter_pgp_msg_file)
decrypter_decrypt == DecryptDecrypt(Decrypter)
decrypter_print == DecryptPrint(Decrypter)

(***************************************************************************)
(* Specification                                                            *)
(***************************************************************************)
StartRun == \E s \in Scripts : Start(s)

Step(s) ==
    CASE s = Encrypter ->
            \/ encrypter_from_file
            \/ encrypter_new
            \/ encrypter_encrypt
            \/ encrypter_open
            \/ encrypter_print
      [] s = Encoder ->
            \/ encoder_from_file
            \/ encoder_message_from_file
            \/ encoder_decrypt
            \/ encoder_print
      [] s = Decrypter ->
            \/ decrypter_from_file
            \/ decrypter_message_from_file
            \/ decrypter_decrypt
            \/ decrypter_print

Next ==
    \/ StartRun
    \/ encrypter_from_file
    \/ encrypter_new
    \/ encrypter_encrypt
    \/ encrypter_open
    \/ encrypter_print
    \/ encoder_from_file
    \/ encoder_message_from_file
    \/ encoder_decrypt
    \/ encoder_print
    \/ decrypter_from_file
    \/ decrypter_message_from_file
    \/ decrypter_decrypt
    \/ decrypter_print

Spec == Init /\ [][Next]_vars

\* A started process of the operating system keeps running: each script's
\* next statement is eventually executed.
FairSpec == Spec /\ \A s \in Scripts : WF_vars(Step(s))

(***************************************************************************)
(* Properties                                                               *)
(***************************************************************************)
Running == {"loadKey", "loadMsg", "crypt", "open", "print"}
Terminal == {"done", "error"}

IsPrefix(a, b) == Len(a) <= Len(b) /\ SubSeq(b, 1, Len(a)) = a

LibraryCalls ==
    {"PGPKey.from_file", "PGPMessage.new", "PGPMessage.from_file",
     "encrypt", "decrypt"}

NumLibraryCalls(s) ==
    Cardinality({i \in 1..Len(log[s]) : log[s][i].call \in LibraryCalls})

\* load key, obtain message, one encrypt or decrypt call, output
StepsInOrder(s) ==
    IF s = Encrypter
    THEN << Call("PGPKey.from_file", "./key_files/pub.asc"),
            Call("PGPMessage.new", ""),
            Call("encrypt", ""),
            Call("open_w", "encrypted_message.txt"),
            Call("print", "encrypted_message.txt") >>
    ELSE << Call("PGPKey.from_file", "./key_files/person_two/sec.asc"),
            Call("PGPMessage.from_file", "p1_armored_message.txt"),
            Call("decrypt", ""),
            Call("print", "<stdout>") >>

\* C1: in every run of each script the calls made so far are an initial
\* part of load key, obtain message, encrypt or decrypt, output, in that
\* order; a finished run has made each of them once (three library calls);
\* a failed run stopped at the library call that failed.
C1_FixedOrder ==
    \A s \in Scripts :
        /\ IsPrefix(log[s], StepsInOrder(s))
        /\ NumLibraryCalls(s) <= 3
        /\ pc[s] = "done" =>
              log[s] = StepsInOrder(s) /\ NumLibraryCalls(s) = 3
        /\ pc[s] = "error" => Len(log[s]) \in 1..3
        /\ pc[s] = "loadKey" => log[s] = <<>>
        /\ pc[s] = "loadMsg" => Len(log[s]) = 1
        /\ pc[s] = "crypt" => Len(log[s]) = 2

C1_Witness ==
    /\ \A s \in Scripts : pc[s] = "done"
    /\ Len(log[Encrypter]) = 5
    /\ Len(log[Decrypter]) = 4

\* The plaintext a decrypt run obtains from the working directory dir.
DecryptedFrom(dir) ==
    Decrypt(LoadKey(dir["./key_files/person_two/sec.asc"]),
            LoadMessage(dir["p1_armored_message.txt"]))

\* C2: a finished decrypt run has printed, once, the plaintext that decrypt
\* returned for ./key_files/person_two/sec.asc and p1_armored_message.txt;
\* a finished encrypt run leaves in encrypted_message.txt one printed
\* line: the armored ciphertext of the fixed literal, encrypted to the key
\* of ./key_files/pub.asc, and nothing of what the file held before.
C2_OutputOnceUnmodified ==
    /\ \A s \in DecryptScripts :
          pc[s] = "done" =>
             /\ ~IsError(DecryptedFrom(fs))
             /\ locals[s].msg = MessageOf(DecryptedFrom(fs))
             /\ stdout[s] = PrintLine(locals[s].msg)
             /\ stdout[s][1] = Text(DecryptedFrom(fs).body)
    /\ pc[Encrypter] = "done" =>
          /\ fs["encrypted_message.txt"] =
                File(PrintLine(locals[Encrypter].armored_msg))
          /\ \E sk \in SessionKeys :
                fs["encrypted_message.txt"].data[1] =
                   Armor(Encrypted(LoadKey(fs["./key_files/pub.asc"]).id, sk,
                        "Secret message from python encoder script"))

C2_Witness ==
    /\ pc[Encrypter] = "done"
    /\ startfile.exists
    /\ pc[Encoder] = "done"
    /\ stdout[Encoder] # <<>>

KeyFileOf(s) ==
    IF s = Encrypter THEN encrypter_public_key_file
    ELSE IF s = Encoder THEN encoder_key_file ELSE decrypter_key_file

\* C3: when loading the key file has failed, the run is in the error state
\* with that failure, the failed load is the only call it made, no local
\* variable is set, nothing is printed, the output file is as it was when
\* the run started, and the run takes no further step.
C3_KeyLoadFailure ==
    \A s \in Scripts :
        (IsError(LoadKey(fs[KeyFileOf(s)])) /\ pc[s] \notin {"idle", "loadKey"})
        => /\ pc[s] = "error"
           /\ err[s] = LoadKey(fs[KeyFileOf(s)])
           /\ log[s] = <<Call("PGPKey.from_file", KeyFileOf(s))>>
           /\ locals[s] = FreshLocals(s)
           /\ stdout[s] = <<>>
           /\ s = Encrypter => fs["encrypted_message.txt"] = startfile
           /\ ~ENABLED Step(s)

C3_Witness ==
    /\ \A s \in Scripts : pc[s] = "error" /\ Len(log[s]) = 1
    /\ err[Encrypter] = Error("KeyFormatError")
    /\ err[Decrypter] = Error("KeyFormatError")

MsgFileOf(s) == IF s = Encoder THEN encoder_pgp_msg_file ELSE decrypter_pgp_msg_file

\* C4: in a decrypt script, when the key was loaded and loading the message
\* file has failed, the run is in the error state with that failure, decrypt
\* was not called, nothing is printed and the run takes no further step.
C4_MessageLoadFailure ==
    \A s \in DecryptScripts :
        (/\ ~IsError(LoadKey(fs[KeyFileOf(s)]))
         /\ IsError(LoadMessage(fs[MsgFileOf(s)]))
         /\ pc[s] \notin {"idle", "loadKey", "loadMsg"})
        => /\ pc[s] = "error"
           /\ err[s] = LoadMessage(fs[MsgFileOf(s)])
           /\ locals[s].privkey = LoadKey(fs[KeyFileOf(s)])
           /\ locals[s].crypt_msg = None
           /\ locals[s].msg = None
           /\ \A i \in 1..Len(log[s]) : log[s][i].call \notin {"decrypt", "print"}
           /\ Len(log[s]) = 2
           /\ stdout[s] = <<>>
           /\ ~ENABLED Step(s)

C4_Witness ==
    /\ pc[Encoder] = "error"
    /\ err[Encoder] = Error("MessageFormatError")
    /\ locals[Encoder].privkey.type = "key"

DecryptErrors == {"DecryptionError", "WrongKeyError", "PassphraseError"}

C6_OutputFileUntouchedOnFailure ==
    /\ pc[Encrypter] \in {"loadKey", "loadMsg", "crypt", "open", "error"}
       => fs["encrypted_message.txt"] = startfile
    /\ (\E i \in 1..Len(log[Encrypter]) :
           log[Encrypter][i].path = "encrypted_message.txt")
       => locals[Encrypter].armored_msg.type = "encrypted"

C6_Witness ==
    /\ pc[Encrypter] = "error"
    /\ err[Encrypter] = Error("EncryptionError")
    /\ fs["encrypted_message.txt"] = File(<<Text("old"), NL>>)
    /\ runs[Encrypter] = 1

\* C7: the decrypt scripts only read ./key_files/person_two/sec.asc and
\* p1_armored_message.txt, decrypt and print to standard output: they write
\* no file, ep.pgp and private.key are never read or created, and they make
\* no encrypt call.
C7_NoTokenWorkflow ==
    /\ \A s \in DecryptScripts : \A i \in 1..Len(log[s]) :
          log[s][i] \in
             { Call("PGPKey.from_file", "./key_files/person_two/sec.asc"),
               Call("PGPMessage.from_file", "p1_armored_message.txt"),
               Call("decrypt", ""),
               Call("print", "<stdout>") }
    /\ \A p \in AbandonedPaths : fs[p] = NoFile
    /\ \A s \in Scripts : \A i \in 1..Len(log[s]) :
          log[s][i].path \notin AbandonedPaths

C7_Witness ==
    /\ pc[Encoder] = "done"
    /\ pc[Decrypter] = "print"
    /\ Len(log[Encoder]) = 4

\* C8: the two decrypt scripts make the same calls on the same paths in the
\* same order, hold the same values at the same position, and end in the
\* same outcome: the same printed plaintext or the same error at the same
\* step.
C8_DecryptScriptsEquivalent ==
    /\ IsPrefix(log[Encoder], log[Decrypter])
       \/ IsPrefix(log[Decrypter], log[Encoder])
    /\ (pc[Encoder] = pc[Decrypter] /\ pc[Encoder] # "idle")
       => /\ locals[Encoder] = locals[Decrypter]
          /\ log[Encoder] = log[Decrypter]
    /\ (pc[Encoder] \in Terminal /\ pc[Decrypter] \in Terminal)
       => /\ pc[Encoder] = pc[Decrypter]
          /\ stdout[Encoder] = stdout[Decrypter]
          /\ err[Encoder] = err[Decrypter]
          /\ log[Encoder] = log[Decrypter]

C8_Witness ==
    /\ pc[Encoder] = "done"
    /\ pc[Decrypter] = "done"
    /\ stdout[Decrypter] # <<>>
    /\ runs[Encoder] # runs[Decrypter]

\* What a decrypt run does in the working directory dir.
DecryptOutcome(dir) ==
    LET k == LoadKey(dir["./key_files/person_two/sec.asc"])
        m == LoadMessage(dir["p1_armored_message.txt"])
    IN  IF IsError(k) THEN [pc |-> "error", err |-> k, stdout |-> <<>>]
        ELSE IF IsError(m) THEN [pc |-> "error", err |-> m, stdout |-> <<>>]
        ELSE IF IsError(Decrypt(k, m))
             THEN [pc |-> "error", err |-> Decrypt(k, m), stdout |-> <<>>]
             ELSE [pc |-> "done", err |-> None,
                   stdout |-> <<Text(Decrypt(k, m).body), NL>>]

\* C9: the encrypt script reads only ./key_files/pub.asc and writes only
\* encrypted_message.txt, the decrypt scripts read only
\* ./key_files/person_two/sec.asc and p1_armored_message.txt, every other
\* file stays as it was before any script ran, and a decrypt run ends as it
\* would have in the working directory in which no script had run.
C9_NoSharedFile ==
    /\ \A i \in 1..Len(log[Encrypter]) :
          log[Encrypter][i].path \in
             {"", "./key_files/pub.asc", "encrypted_message.txt"}
    /\ \A s \in DecryptScripts : \A i \in 1..Len(log[s]) :
          log[s][i].path \in
             {"", "<stdout>", "./key_files/person_two/sec.asc",
              "p1_armored_message.txt"}
    /\ \A p \in Paths \ {"encrypted_message.txt"} : fs[p] = initfs[p]
    /\ \A s \in DecryptScripts :
          pc[s] \in Terminal =>
             /\ pc[s] = DecryptOutcome(initfs).pc
             /\ err[s] = DecryptOutcome(initfs).err
             /\ stdout[s] = DecryptOutcome(initfs).stdout

C9_Witness ==
    /\ pc[Decrypter] = "done"
    /\ stdout[Decrypter] # <<>>
    /\ pc[Encoder] = "loadKey"
    /\ pc[Encrypter] = "done"
    /\ fs["encrypted_message.txt"] # initfs["encrypted_message.txt"]

NoRepeatedCall(s) ==
    \A i, j \in 1..Len(log[s]) : log[s][i] = log[s][j] => i = j

\* C10: no run makes any call twice, a script in the middle of a run can
\* always execute its next statement (it never waits), and, the number of
\* runs being finite, every behaviour reaches a point from which no script
\* is in the middle of a run: every run that was started has reached the
\* done state or the error state.
C10_Termination ==
    /\ [](\A s \in Scripts : NoRepeatedCall(s))
    /\ [](\A s \in Scripts : pc[s] \in Running => ENABLED Step(s))
    /\ <>[](\A s \in Scripts : pc[s] \notin Running)

C10_Witness ==
    /\ pc[Encrypter] = "error"
    /\ pc[Encoder] = "done"
    /\ pc[Decrypter] = "done"
    /\ \A s \in Scripts : runs[s] = MaxRuns

=============================================================================
